---- MODULE Spec2Model ----
(***************************************************************************)
(* Model of the invoice product-matching engine of nsv-csharp-sql:         *)
(*   - ProductMatchingPipeline (product_matching_pipeline.py): the text    *)
(*     normalizer, the candidate search and the match resolver;            *)
(*   - VectorService (vector_service.py): the partitioned similarity       *)
(*     search.                                                             *)
(* Numbers that the code keeps as floats in [0,1] (distances, similarity   *)
(* scores, confidences) are kept here in hundredths: 0.9 is 90.            *)
(* A description is the sequence of the pieces that str.split(' ') gives:  *)
(* its words, with "" for the gap between two adjacent spaces.             *)
(***************************************************************************)
EXTENDS Integers, Sequences, FiniteSets, TLC

\* ------------------------------------------------------------------ bounds
\* Longest raw description, in words, given to the normalizer.
MaxWords == 3
\* How many times the normalizer is run over its own output.
MaxPasses == 2

\* Most entries the product collection holds.
MaxEntries == 6
\* Most raw items of one invoice.
MaxLines == 2
\* Most chunks one partition of the vector service holds.
MaxChunks == 2
\* Largest top_k asked of a similarity query.
MaxTopK == 3

VARIABLES
    normIn,         \* clean_and_normalize_description: the raw description
    normOut,        \* the results of the successive passes, oldest first
    llm,            \* ProductMatchingPipeline.llm is set (an API key was given)
    productColl,    \* the "product_descriptions" collection of the index store
    invoice,        \* match_invoice_line_items: the raw items of invoice_json
    line_items,     \* its local line_items
    mPc,            \* its position: "start" | "search" | "resolve" | "returned" | "raised"
    mIdx,           \* the position in line_items of the line being processed
    candidates,     \* its local candidates (of the line being processed)
    matched_items,  \* its local matched_items
    aiLog,          \* history: the prompts given to the LLM chain and its answers
    searchLog,      \* history: the candidate list of each processed line
    vsOpenai,       \* VectorService.openai_client is set
    vsCollections,  \* the partitions of the vector service's store, by pdf type
    sPc,            \* a similarity query: "idle" | "done"
    sQuery,         \* history: the query asked (function, pdf_type, top_k)
    sAnswer,        \* history: the distances the store reported for it
    sResult,        \* what the query returned
    dLog,           \* history: the delete_document calls, oldest first
    catActive,      \* catalog source: Products.IsActive, by product id
    catAlt,         \* catalog source: the rows of ProductDescriptions, oldest first
    training,       \* catalog source: the rows of ProductMatchingTraining
    fPc,            \* update_from_user_feedback: "idle" | "train" | "alt" | "rebuild"
    fCall,          \* its arguments (of the call in progress)
    fLog,           \* history: the feedback calls, oldest first
    buildLog,       \* history: the build_vector_index calls, oldest first
    collGen,        \* index store: how many product collections were created so far
    cPc,            \* concurrent callers: the position of each caller
    cCall,          \* the call each caller makes (kind, product_id, description)
    cLocal,         \* its locals: the count it read, its collection handle, products
    stPc,           \* store_document_vector: "idle" | "split" | "add" | "returned" | "raised"
    stCall,         \* its arguments and the document id it draws
    stLocal         \* its locals: start and chunks of the splitter, the chunk index i

normVars == <<normIn, normOut>>
matchVars == <<llm, productColl, invoice, line_items, mPc, mIdx, candidates,
               matched_items, aiLog, searchLog>>
searchVars == <<vsOpenai, vsCollections, sPc, sQuery, sAnswer, sResult, dLog>>
feedbackVars == <<catActive, catAlt, training, fPc, fCall, fLog, buildLog>>
concVars == <<collGen, cPc, cCall, cLocal>>
storeVars == <<stPc, stCall, stLocal>>
vars == <<normIn, normOut, llm, productColl, invoice, line_items, mPc, mIdx,
          candidates, matched_items, aiLog, searchLog,
          vsOpenai, vsCollections, sPc, sQuery, sAnswer, sResult, dLog,
          catActive, catAlt, training, fPc, fCall, fLog, buildLog,
          collGen, cPc, cCall, cLocal, stPc, stCall, stLocal>>

\* ------------------------------------------------------- generic helpers
RECURSIVE Flatten(_)
\* The concatenation of a sequence of sequences.
Flatten(ss) == IF ss = <<>> THEN <<>> ELSE Head(ss) \o Flatten(Tail(ss))

\* The sequences over S of length 0..n.
SeqUpTo(S, n) == UNION {[1..k -> S] : k \in 0..n}

\* ---------------------------------------------------------- Text Normalizer
\* str.lower() on the words of the vocabulary.
Lower(w) ==
    CASE w = "Galv" -> "galv"
      [] w = "X" -> "x"
      [] w = "Treated" -> "treated"
      [] OTHER -> w

\* \b(qty|quantity|ea|each|unit|units|item|items)\b
FillerWords == {"qty", "quantity", "ea", "each", "unit", "units", "item", "items"}

\* \d+ as a whole word
NumberWords == {"2", "4", "100"}

\* (x|×|by)
MultWords == {"x", "by"}

\* The index of the first non-empty piece of s at or after i (Len(s)+1 if none):
\* what \s* skips.
RECURSIVE SkipSpaces(_, _)
SkipSpaces(s, i) ==
    IF i > Len(s) THEN Len(s) + 1
    ELSE IF s[i] # "" THEN i
    ELSE SkipSpaces(s, i + 1)

\* re.sub(r'\b(qty|...|items)\b', '', s): the word goes, its spaces stay.
StripFillers(s) == [i \in 1..Len(s) |-> IF s[i] \in FillerWords THEN "" ELSE s[i]]

\* re.sub(r'\b\d+\s*(x|×|by)\s*\d+\b', lambda m: m.group(0).replace(' ', ''), s)
RECURSIVE CollapseMult(_)
CollapseMult(s) ==
    IF s = <<>> THEN <<>>
    ELSE LET j == SkipSpaces(s, 2)
             k == SkipSpaces(s, j + 1)
         IN IF /\ s[1] \in NumberWords
               /\ j <= Len(s) /\ s[j] \in MultWords
               /\ k <= Len(s) /\ s[k] \in NumberWords
            THEN <<s[1] \o s[j] \o s[k]>> \o CollapseMult(SubSeq(s, k + 1, Len(s)))
            ELSE <<s[1]>> \o CollapseMult(Tail(s))

\* re.sub(r'\b(\d+)\s*<u>\b', r'\1<u>', s) for u in mm, m, cm
RECURSIVE JoinUnit(_, _)
JoinUnit(s, u) ==
    IF s = <<>> THEN <<>>
    ELSE LET j == SkipSpaces(s, 2)
         IN IF s[1] \in NumberWords /\ j <= Len(s) /\ s[j] = u
            THEN <<s[1] \o u>> \o JoinUnit(SubSeq(s, j + 1, Len(s)), u)
            ELSE <<s[1]>> \o JoinUnit(Tail(s), u)

\* re.sub(r'\b' + old + r'\b', new, s) for a one-word old
ReplaceWord(s, old, new) ==
    Flatten([i \in 1..Len(s) |-> IF s[i] = old THEN new ELSE <<s[i]>>])

\* re.sub(r'\bst steel\b', 'stainless steel', s): the two words one space apart
RECURSIVE ReplacePair(_, _, _, _)
ReplacePair(s, a, b, new) ==
    IF s = <<>> THEN <<>>
    ELSE IF Len(s) >= 2 /\ s[1] = a /\ s[2] = b
         THEN new \o ReplacePair(SubSeq(s, 3, Len(s)), a, b, new)
         ELSE <<s[1]>> \o ReplacePair(Tail(s), a, b, new)

\* The replacements dictionary, applied in its insertion order.
ApplyReplacements(s) ==
    LET r1 == ReplaceWord(s, "galvanised", <<"galvanized">>)
        r2 == ReplaceWord(r1, "galv", <<"galvanized">>)
        r3 == ReplaceWord(r2, "ss", <<"stainless", "steel">>)
        r4 == ReplacePair(r3, "st", "steel", <<"stainless", "steel">>)
        r5 == ReplaceWord(r4, "hw", <<"hardwood">>)
        r6 == ReplaceWord(r5, "sw", <<"softwood">>)
        r7 == ReplaceWord(r6, "dar", <<"dressed", "all", "round">>)
        r8 == ReplaceWord(r7, "ddr", <<"dressed", "dual", "radius">>)
        r9 == ReplaceWord(r8, "h4", <<"treated", "h4">>)
    IN ReplaceWord(r9, "treated", <<"treated", "h3">>)

\* str.strip(): the leading and the trailing spaces go.
RECURSIVE Strip(_)
Strip(s) ==
    IF s = <<>> THEN <<>>
    ELSE IF Head(s) = "" THEN Strip(Tail(s))
    ELSE IF s[Len(s)] = "" THEN Strip(SubSeq(s, 1, Len(s) - 1))
    ELSE s

\* re.sub(r'\s+', ' ', s).strip()
CollapseSpaces(s) == SelectSeq(s, LAMBDA w : w # "")

clean_and_normalize_description(description) ==
    IF description = <<>> THEN <<>>
    ELSE LET lowered == Strip([i \in 1..Len(description) |-> Lower(description[i])])
             nofill == StripFillers(lowered)
             mult == CollapseMult(nofill)
             units == JoinUnit(JoinUnit(JoinUnit(mult, "mm"), "m"), "cm")
         IN CollapseSpaces(ApplyReplacements(units))

\* The words raw descriptions are made of: fillers, numbers, units, the
\* multiplication words, keys and values of the replacements, other words.
Vocabulary ==
    {"qty", "each", "2", "4", "x", "X", "mm", "m", "galv", "Galv", "galvanized",
     "ss", "st", "steel", "h4", "treated", "hw", "timber"}

RawDescriptions == SeqUpTo(Vocabulary, MaxWords)

\* ------------------------------------------------------------ index store
\* The store holds no such collection: get_collection raises.
NoCollection == [exists |-> FALSE, entries |-> <<>>]

\* The k-th entry build_vector_index writes: a description text of a product.
\* The products of the catalog.
ProductIds == {1, 2}
EntryAt(k) == [product_id |-> ((k - 1) % Cardinality(ProductIds)) + 1, doc |-> k]
CollectionOfSize(n) == [exists |-> TRUE, entries |-> [k \in 1..n |-> EntryAt(k)]]

Min(a, b) == IF a < b THEN a ELSE b
Max(a, b) == IF a > b THEN a ELSE b

\* Insert x into the sequence s, sorted ascending by .key, after the elements
\* whose key is not greater (the order of equal keys is kept).
RECURSIVE InsertByKey(_, _)
InsertByKey(s, x) ==
    IF s = <<>> THEN <<x>>
    ELSE IF Head(s).key <= x.key THEN <<Head(s)>> \o InsertByKey(Tail(s), x)
    ELSE <<x>> \o s

RECURSIVE SortByKey(_)
SortByKey(s) ==
    IF s = <<>> THEN <<>>
    ELSE InsertByKey(SortByKey(SubSeq(s, 1, Len(s) - 1)), s[Len(s)])

\* chromadb Collection.query(n_results = n): the n entries nearest to the
\* query, nearest first; dist[k] is the distance of entry k to the query.
\* The answer carries parallel lists: documents/metadatas and distances.
ChromaQuery(entries, dist, n) ==
    LET keyed == [k \in 1..Len(entries) |-> [key |-> dist[k], item |-> entries[k]]]
        ranked == SortByKey(keyed)
        top == SubSeq(ranked, 1, Min(n, Len(ranked)))
    IN [ok |-> TRUE,
        documents |-> [k \in 1..Len(top) |-> top[k].item],
        distances |-> [k \in 1..Len(top) |-> top[k].key],
        has_distances |-> TRUE]

\* The store call raised (collection missing, store unreachable).
ChromaError == [ok |-> FALSE, documents |-> <<>>, distances |-> <<>>, has_distances |-> FALSE]

\* The same answer without its 'distances' key.
WithoutDistances(r) == [r EXCEPT !.distances = <<>>, !.has_distances = FALSE]

\* Every answer the store can give to a query of coll for n results, the
\* distances drawn from the assignments in Dists.
ChromaAnswers(coll, n, Dists) ==
    IF ~coll.exists THEN {ChromaError}
    ELSE {ChromaError}
         \cup {ChromaQuery(coll.entries, d, n) : d \in Dists}
         \cup {WithoutDistances(ChromaQuery(coll.entries, d, n)) : d \in Dists}

\* ---------------------------------------------------------- Candidate Ranker
\* search_similar_products, given the store's answer to collection.query.
search_similar_products(answer) ==
    IF ~answer.ok THEN <<>>
    ELSE [i \in 1..Len(answer.documents) |->
            LET distance == IF answer.has_distances THEN answer.distances[i] ELSE 0
            IN [product_id |-> answer.documents[i].product_id,
                matched_description |-> answer.documents[i].doc,
                similarity_score |-> 100 - distance]]

\* ------------------------------------------------------------ VectorService
\* The pdf types in use; "other" names a partition that does not exist yet.
PdfTypes == {"invoice", "receipt", "other"}
\* client.list_collections(), in the store's order
PdfTypeOrder == <<"invoice", "receipt", "other">>
\* pdf_type = None
NoType == "none"

\* The j-th chunk stored in the partition of pdf type t: store_document_vector
\* writes chunk c of document d under the id "{d}_chunk_{c}".
\* document_id is a fresh uuid per stored document: <<t, n>> names the n-th
\* document stored under type t.
ChunkAt(t, j) ==
    [id |-> j, document_id |-> <<t, (j + 1) \div 2>>, chunk_index |-> (j + 1) % 2,
     pdf_type |-> t]
PartitionOfSize(t, n) == [exists |-> TRUE, entries |-> [j \in 1..n |-> ChunkAt(t, j)]]

\* n_results = min(top_k, 10)
PerCollectionLimit == 10

\* distance = distances[i] if i < len(distances) else 1.0
DefaultDistance == 100

\* _format_search_results
format_search_results(answer) ==
    [i \in 1..Len(answer.documents) |->
        LET distance == IF i <= Len(answer.distances) THEN answer.distances[i]
                        ELSE DefaultDistance
        IN [document |-> answer.documents[i].id,
            similarity_score |-> Max(0, 100 - distance),
            pdf_type |-> answer.documents[i].pdf_type,
            chunk_index |-> answer.documents[i].chunk_index,
            document_id |-> answer.documents[i].document_id]]

\* What happens to one query besides the distances: the store is down, the
\* embedding call fails, or the store answers (with or without distances).
\* dist maps <<pdf_type, chunk id>> to the chunk's distance to the query.
StoreDown == [kind |-> "store_down", dist |-> <<>>, has_distances |-> FALSE]
EmbedFailed == [kind |-> "embed_failed", dist |-> <<>>, has_distances |-> FALSE]
Answered(d, b) == [kind |-> "answered", dist |-> d, has_distances |-> b]

\* The store's answer to collection.query on one partition.
PartitionAnswer(part, t, n, outcome) ==
    LET a == ChromaQuery(part.entries,
                         [j \in 1..Len(part.entries) |-> outcome.dist[<<t, j>>]], n)
    IN IF outcome.has_distances THEN a ELSE WithoutDistances(a)

\* _search_collection: a query with the embedding None raises in the store,
\* and every exception gives [].
search_collection(has_openai, part, t, top_k, outcome) ==
    IF has_openai /\ outcome.kind = "embed_failed" THEN <<>>
    ELSE format_search_results(
            PartitionAnswer(part, t, Min(top_k, PerCollectionLimit), outcome))

\* Mutant: the merged results left in partition order.
Unsorted(results) == results

\* results.sort(key=lambda x: x.get('similarity_score', 0), reverse=True)
SortBySimilarityDesc(results) ==
    LET keyed == [k \in 1..Len(results) |->
                    [key |-> 0 - results[k].similarity_score, item |-> results[k]]]
        sorted == SortByKey(keyed)
    IN [k \in 1..Len(sorted) |-> sorted[k].item]

\* create_or_get_collection: the partition is created when it is missing.
create_or_get_collection(colls, t) ==
    IF colls[t].exists THEN colls ELSE [colls EXCEPT ![t] = PartitionOfSize(t, 0)]

\* Mutant: only the first listed partition searched.
SearchFirstOnly(has_openai, colls, order, i, top_k, outcome) ==
    IF i > Len(order) \/ ~colls[order[i]].exists THEN <<>>
    ELSE search_collection(has_openai, colls[order[i]], order[i], top_k, outcome)

\* The results of the fan-out over the partitions order[i..], concatenated.
RECURSIVE SearchAll(_, _, _, _, _, _)
SearchAll(has_openai, colls, order, i, top_k, outcome) ==
    IF i > Len(order) THEN <<>>
    ELSE (IF colls[order[i]].exists
          THEN search_collection(has_openai, colls[order[i]], order[i], top_k, outcome)
          ELSE <<>>)
         \o SearchAll(has_openai, colls, order, i + 1, top_k, outcome)

\* search_similar_documents: the list it returns.
search_similar_documents(has_openai, colls, pdf_type, top_k, outcome) ==
    IF outcome.kind = "store_down" THEN <<>>
    ELSE LET results ==
                IF pdf_type # NoType
                THEN search_collection(has_openai,
                        create_or_get_collection(colls, pdf_type)[pdf_type],
                        pdf_type, top_k, outcome)
                ELSE SearchAll(has_openai, colls, PdfTypeOrder, 1, top_k, outcome)
             sorted == SortBySimilarityDesc(results)
         IN SubSeq(sorted, 1, Min(top_k, Len(sorted)))

\* The distances a query can meet: 0, 0.6 and 1.3 (chroma's default squared
\* L2 distance is not bounded by 1).
QueryDistances == {0, 60, 130}

\* The slots <<pdf_type, chunk id>> of the chunks in the store.
ChunkSlots(colls) ==
    {sl \in PdfTypes \X (1..MaxChunks) : sl[2] <= Len(colls[sl[1]].entries)}

QueryOutcomes(has_openai, colls) ==
    {StoreDown}
    \cup (IF has_openai THEN {EmbedFailed} ELSE {})
    \cup {Answered(d, b) : d \in [ChunkSlots(colls) -> QueryDistances], b \in BOOLEAN}

NoPartition == [exists |-> FALSE, entries |-> <<>>]

SearchIdle ==
    /\ vsOpenai = FALSE
    /\ vsCollections = [t \in PdfTypes |-> NoPartition]
    /\ sPc = "off"
    /\ sQuery = <<>>
    /\ sAnswer = <<>>
    /\ sResult = <<>>
    /\ dLog = <<>>

\* No concurrent caller is modelled.
ConcIdle ==
    /\ collGen = 0
    /\ cPc = <<>>
    /\ cCall = <<>>
    /\ cLocal = <<>>

\* No store_document_vector call is modelled.
StoreIdle ==
    /\ stPc = "off"
    /\ stCall = <<>>
    /\ stLocal = <<>>

\* No feedback call and no index build is modelled: an empty catalog source.
FeedbackIdle ==
    /\ catActive = [p \in ProductIds |-> FALSE]
    /\ catAlt = <<>>
    /\ training = <<>>
    /\ fPc = "off"
    /\ fCall = <<>>
    /\ fLog = <<>>
    /\ buildLog = <<>>

\* ------------------------------------------------------------ Match Resolver
\* top_k of the search in match_invoice_line_items
MatchTopK == 5
\* candidates[0]['similarity_score'] > 0.9
HighThreshold == 90
\* best_match.confidence_score < 0.7
ReviewThreshold == 70
\* candidates[:5] in the prompt
PromptCandidates == 5
\* candidates[:3] in the result
ResultCandidates == 3

\* best_match = None
NoMatch ==
    [product_id |-> 0, standardized_description |-> 0,
     confidence_score |-> [kind |-> "none", val |-> 0], match_type |-> "none"]

Num(v) == [kind |-> "num", val |-> v]

\* What "confidence_score" of the parsed answer can be: a number (in
\* hundredths), null, a string, or no such key.
Confidences ==
    {Num(65), Num(70), Num(150)}
    \cup {[kind |-> k, val |-> 0] : k \in {"null", "str", "missing"}}

\* A product id no candidate carries.
UnknownProductId == Cardinality(ProductIds) + 1

\* What the LLM chain can do: raise, answer text that is no JSON, or answer a
\* JSON object naming a product id and a confidence.
AIResponses ==
    {[kind |-> k, product_id |-> 0, confidence |-> [kind |-> "missing", val |-> 0]] :
        k \in {"error", "text"}}
    \cup {[kind |-> "json", product_id |-> p, confidence |-> c] :
            p \in ProductIds \cup {UnknownProductId}, c \in Confidences}

\* The chain is not invoked.
NoResponse == [kind |-> "none", product_id |-> 0, confidence |-> [kind |-> "missing", val |-> 0]]

\* next((c for c in candidates if c['product_id'] == id), None): its position, or 0
RECURSIVE FirstWithProduct(_, _, _)
FirstWithProduct(cands, id, i) ==
    IF i > Len(cands) THEN 0
    ELSE IF cands[i].product_id = id THEN i
    ELSE FirstWithProduct(cands, id, i + 1)

\* ai_resolve_best_match gets as far as chain.invoke
ChainInvoked(has_llm, cands) == has_llm /\ cands # <<>>

\* The prompt of chain.invoke: the description and the formatted candidates.
Prompt(invoice_description, cands) ==
    [invoice_description |-> invoice_description,
     candidates |-> SubSeq(cands, 1, Min(PromptCandidates, Len(cands)))]

\* ai_resolve_best_match, given what the chain does when invoked.
ai_resolve_best_match(has_llm, cands, resp) ==
    IF ~ChainInvoked(has_llm, cands) THEN NoMatch
    ELSE IF resp.kind # "json" THEN NoMatch
    ELSE LET sel == FirstWithProduct(cands, resp.product_id, 1)
         IN IF sel = 0 THEN NoMatch
            ELSE IF resp.confidence.kind = "missing" THEN NoMatch
            ELSE [product_id |-> cands[sel].product_id,
                  standardized_description |-> cands[sel].matched_description,
                  confidence_score |-> resp.confidence,
                  match_type |-> "ai_resolved"]

\* Mutant: the auto-accept threshold set too high.
HighConfidenceStrict(cands) == cands # <<>> /\ cands[1].similarity_score > 95

\* if candidates: if candidates[0]['similarity_score'] > 0.9
HighConfidence(cands) == cands # <<>> /\ cands[1].similarity_score > HighThreshold

\* ... else: ai_resolve_best_match(line_item.raw_description, candidates)
Ambiguous(cands) == cands # <<>> /\ ~HighConfidence(cands)

\* Mutant: the normalized description handed to the AI step.
AiDescriptionNormalized(line_item) == line_item.description

\* The description the resolver hands to the AI step.
AiDescription(line_item) == line_item.raw_description

\* best_match of one line
BestMatch(has_llm, cands, resp) ==
    IF HighConfidence(cands)
    THEN [product_id |-> cands[1].product_id,
          standardized_description |-> cands[1].matched_description,
          confidence_score |-> Num(cands[1].similarity_score),
          match_type |-> "semantic"]
    ELSE IF cands # <<>> THEN ai_resolve_best_match(has_llm, cands, resp)
    ELSE NoMatch

\* best_match.confidence_score < 0.7 raises TypeError (None or str against float)
ReviewRaises(best) == best # NoMatch /\ best.confidence_score.kind # "num"

\* Mutant: a confidence of exactly 0.7 sent to review.
NeedsReviewInclusive(best) == best = NoMatch \/ best.confidence_score.val <= ReviewThreshold

\* Mutant: a missing match not sent to review.
NeedsReviewOnlyLow(best) == best # NoMatch /\ best.confidence_score.val < ReviewThreshold

\* best_match is None or best_match.confidence_score < 0.7
NeedsReview(best) == best = NoMatch \/ best.confidence_score.val < ReviewThreshold

\* Mutant: every candidate kept as an alternative.
AlternativesAll(cands) == cands

\* candidates[:3]
Alternatives(cands) == SubSeq(cands, 1, Min(ResultCandidates, Len(cands)))

MatchResult(line_item, best, cands) ==
    [line_item |-> line_item,
     matched_product |-> best,
     candidates |-> Alternatives(cands),
     needs_review |-> NeedsReview(best)]

\* ------------------------------------------------------------------ Extractor
\* A field of a raw item: absent, an object carrying valueString/valueNumber,
\* a plain string or number where the object is expected, or (numbers) an
\* object whose valueNumber is text that float() rejects.
MissingText == [kind |-> "missing", value |-> <<>>]
Text(d) == [kind |-> "object", value |-> d]
ScalarText == [kind |-> "scalar", value |-> <<>>]
MissingNumber == [kind |-> "missing", value |-> 0]
Number(n) == [kind |-> "object", value |-> n]
ScalarNumber == [kind |-> "scalar", value |-> 0]
NonNumeric == [kind |-> "text", value |-> 0]

\* A raw item that is a dict, and one that is not (a string, a number, null).
DictItem(d, q, u, a) ==
    [kind |-> "dict", Description |-> d, ProductCode |-> MissingText,
     Quantity |-> q, UnitPrice |-> u, Amount |-> a]
NotADict == [kind |-> "other", Description |-> MissingText, ProductCode |-> MissingText,
             Quantity |-> MissingNumber, UnitPrice |-> MissingNumber,
             Amount |-> MissingNumber]

\* The same item with a ProductCode field, the last source of a description.
WithProductCode(item, c) == [item EXCEPT !.ProductCode = c]

\* "if description:" (line 197) with the test left out.
TruthyAlways(description) == TRUE

\* "if description:" (line 197): a non-empty string.
Truthy(description) == description # <<>>

\* The locals description, quantity, unit_price, total_price of the loop:
\* unbound until the first assignment, and kept from one iteration to the next.
NoLocals ==
    [description |-> [bound |-> FALSE, val |-> <<>>],
     quantity |-> [bound |-> FALSE, val |-> 0],
     unit_price |-> [bound |-> FALSE, val |-> 0],
     total_price |-> [bound |-> FALSE, val |-> 0]]

Bound(v) == [bound |-> TRUE, val |-> v]

\* The assignments of lines 183-195 for a dict item: "abort" when .get is
\* called on a plain string or number (AttributeError, not caught), "skip"
\* when float() raises ValueError (caught, continue), else "ok"; with the
\* locals as the assignments done so far leave them.
AssignFields(item, locals) ==
    IF \/ item.Description.kind = "scalar"
       \/ ~Truthy(item.Description.value) /\ item.ProductCode.kind = "scalar"
    THEN [result |-> "abort", locals |-> locals]
    ELSE LET l1 == [locals EXCEPT !.description =
                       Bound(IF Truthy(item.Description.value)
                             THEN item.Description.value
                             ELSE item.ProductCode.value)]
         IN IF item.Quantity.kind = "scalar" THEN [result |-> "abort", locals |-> l1]
            ELSE IF item.Quantity.kind = "text" THEN [result |-> "skip", locals |-> l1]
            ELSE LET quantity == IF item.Quantity.value # 0 THEN item.Quantity.value ELSE 1
                     l2 == [l1 EXCEPT !.quantity = Bound(quantity)]
                 IN IF item.UnitPrice.kind = "scalar" THEN [result |-> "abort", locals |-> l2]
                    ELSE IF item.UnitPrice.kind = "text" THEN [result |-> "skip", locals |-> l2]
                    ELSE LET unit_price == item.UnitPrice.value
                             l3 == [l2 EXCEPT !.unit_price = Bound(unit_price)]
                         IN IF item.Amount.kind = "scalar"
                            THEN [result |-> "abort", locals |-> l3]
                            ELSE IF item.Amount.kind = "text"
                            THEN [result |-> "skip", locals |-> l3]
                            ELSE [result |-> "ok",
                                  locals |-> [l3 EXCEPT !.total_price =
                                     Bound(IF item.Amount.value # 0 THEN item.Amount.value
                                           ELSE quantity * unit_price)]]

\* One iteration of the loop: the fields are assigned only for a dict item;
\* "if description:" and the InvoiceLineItem(...) call then read the locals,
\* and reading an unbound local raises UnboundLocalError, which is not caught.
ItemStep(item, i, locals) ==
    LET assigned == IF item.kind = "dict" THEN AssignFields(item, locals)
                    ELSE [result |-> "ok", locals |-> locals]
        l == assigned.locals
    IN IF assigned.result # "ok" THEN [result |-> assigned.result, locals |-> l, made |-> <<>>]
       ELSE IF ~l.description.bound THEN [result |-> "abort", locals |-> l, made |-> <<>>]
       ELSE IF ~Truthy(l.description.val) THEN [result |-> "ok", locals |-> l, made |-> <<>>]
       ELSE IF ~(l.quantity.bound /\ l.unit_price.bound /\ l.total_price.bound)
            THEN [result |-> "abort", locals |-> l, made |-> <<>>]
       ELSE [result |-> "ok", locals |-> l,
             made |-> <<[description |-> clean_and_normalize_description(l.description.val),
                         quantity |-> l.quantity.val,
                         unit_price |-> l.unit_price.val,
                         total_price |-> l.total_price.val,
                         line_number |-> i,
                         raw_description |-> l.description.val]>>]

\* The loop of extract_line_items from item i on: whether an exception
\* escapes, and the line items appended.
RECURSIVE ExtractFrom(_, _, _)
ExtractFrom(items, i, locals) ==
    IF i > Len(items) THEN [raised |-> FALSE, items |-> <<>>]
    ELSE LET step == ItemStep(items[i], i, locals)
         IN IF step.result = "abort" THEN [raised |-> TRUE, items |-> <<>>]
            ELSE LET rest == ExtractFrom(items, i + 1, step.locals)
                 IN IF rest.raised THEN rest
                    ELSE [raised |-> FALSE, items |-> step.made \o rest.items]

extract_line_items(items) == ExtractFrom(items, 1, NoLocals)

\* The raw item of a description alone (no Description field when it is empty).
ItemOf(d) ==
    DictItem(IF d = <<>> THEN MissingText ELSE Text(d),
             MissingNumber, MissingNumber, MissingNumber)

\* The raw descriptions of invoice items: one the normalizer changes, one
\* missing.
ItemDescriptions == {<<"Galv", "2", "X", "4">>, <<>>}

\* The distances the store reports in the resolver's runs: the first entry
\* the nearest, at 0.05, 0.10 or 0.40, and each next one 0.10 farther.
MatchDistances(coll) ==
    {[k \in 1..Len(coll.entries) |-> top + 10 * (k - 1)] : top \in {5, 10, 40}}

NormIdle == normIn = <<>> /\ normOut = <<>>

MatchInit ==
    /\ llm \in BOOLEAN
    /\ productColl \in {NoCollection} \cup {CollectionOfSize(n) : n \in 0..MaxEntries}
    /\ invoice \in SeqUpTo({ItemOf(d) : d \in ItemDescriptions}, MaxLines)
    /\ line_items = <<>>
    /\ mPc = "start"
    /\ mIdx = 0
    /\ candidates = <<>>
    /\ matched_items = <<>>
    /\ aiLog = <<>>
    /\ searchLog = <<>>
    /\ NormIdle
    /\ SearchIdle
    /\ FeedbackIdle
    /\ ConcIdle
    /\ StoreIdle

\* line_items = self.extract_line_items(invoice_json); matched_items = []
MatchBegin ==
    /\ mPc = "start"
    /\ LET extracted == extract_line_items(invoice)
       IN /\ line_items' = extracted.items
          /\ mPc' = IF extracted.raised THEN "raised" ELSE "search"
    /\ mIdx' = IF extract_line_items(invoice).raised THEN 0 ELSE 1
    /\ UNCHANGED <<llm, productColl, invoice, candidates, matched_items, aiLog, searchLog>>
    /\ UNCHANGED <<normVars, searchVars, feedbackVars, concVars, storeVars>>

\* candidates = self.search_similar_products(line_item.description, top_k=5)
MatchSearch ==
    /\ mPc = "search"
    /\ mIdx <= Len(line_items)
    /\ \E answer \in ChromaAnswers(productColl, MatchTopK, MatchDistances(productColl)) :
          /\ candidates' = search_similar_products(answer)
          /\ searchLog' = Append(searchLog, search_similar_products(answer))
    /\ mPc' = "resolve"
    /\ UNCHANGED <<llm, productColl, invoice, line_items, mIdx, matched_items, aiLog>>
    /\ UNCHANGED <<normVars, searchVars, feedbackVars, concVars, storeVars>>

\* The rest of the loop body: choose best_match, build and append the result.
MatchResolve ==
    /\ mPc = "resolve"
    /\ LET line_item == line_items[mIdx]
           invoked == Ambiguous(candidates) /\ ChainInvoked(llm, candidates)
       IN \E resp \in (IF invoked THEN AIResponses ELSE {NoResponse}) :
            LET best == BestMatch(llm, candidates, resp)
            IN /\ aiLog' = IF invoked
                           THEN Append(aiLog, [line_number |-> line_item.line_number,
                                               prompt |-> Prompt(AiDescription(line_item), candidates),
                                               response |-> resp])
                           ELSE aiLog
               /\ IF ReviewRaises(best)
                  THEN /\ mPc' = "raised"
                       /\ UNCHANGED <<matched_items, mIdx>>
                  ELSE /\ matched_items' = Append(matched_items, MatchResult(line_item, best, candidates))
                       /\ mIdx' = mIdx + 1
                       /\ mPc' = "search"
    /\ UNCHANGED <<llm, productColl, invoice, line_items, candidates, searchLog>>
    /\ UNCHANGED <<normVars, searchVars, feedbackVars, concVars, storeVars>>

\* return matched_items
MatchReturn ==
    /\ mPc = "search"
    /\ mIdx > Len(line_items)
    /\ mPc' = "returned"
    /\ UNCHANGED <<llm, productColl, invoice, line_items, mIdx, candidates,
                   matched_items, aiLog, searchLog>>
    /\ UNCHANGED <<normVars, searchVars, feedbackVars, concVars, storeVars>>

MatchNext == MatchBegin \/ MatchSearch \/ MatchResolve \/ MatchReturn

SpecMatch == MatchInit /\ [][MatchNext]_vars

\* --------------------------------------------------- claims on the resolver
\* The lines whose loop body has run to its end (the last one raised when
\* mPc = "raised"): line_items[i] with the candidates searchLog[i].
ResolvedLines == 1..(IF mPc = "raised" THEN mIdx ELSE Len(matched_items))

\* The prompts the LLM chain got for line_items[i].
PromptsOf(i) == {j \in 1..Len(aiLog) : aiLog[j].line_number = line_items[i].line_number}

FirstN(s, n) == SubSeq(s, 1, IF Len(s) < n THEN Len(s) ELSE n)

\* C1: a line whose top candidate has similarity > 0.9 is matched to that
\* candidate as 'semantic' with the top similarity as confidence, needs no
\* review, and the LLM chain is never invoked for it.
C1_HighConfidenceAutoAccept ==
    \A i \in ResolvedLines :
        LET c == searchLog[i] IN
        (c # <<>> /\ c[1].similarity_score > 90) =>
            /\ i <= Len(matched_items)
            /\ matched_items[i].matched_product =
                  [product_id |-> c[1].product_id,
                   standardized_description |-> c[1].matched_description,
                   confidence_score |-> [kind |-> "num", val |-> c[1].similarity_score],
                   match_type |-> "semantic"]
            /\ matched_items[i].needs_review = FALSE
            /\ PromptsOf(i) = {}

C1_Witness ==
    \E i \in 1..Len(matched_items) :
        /\ searchLog[i] # <<>>
        /\ searchLog[i][1].similarity_score = 95
        /\ matched_items[i].matched_product.match_type = "semantic"
        /\ llm

\* The answer the chain gave for line_items[i] names a candidate's product and
\* carries a numeric confidence in [0,1].
ValidAnswer(i) ==
    \E j \in PromptsOf(i) :
        /\ aiLog[j].response.kind = "json"
        /\ \E k \in 1..Len(searchLog[i]) :
              searchLog[i][k].product_id = aiLog[j].response.product_id
        /\ aiLog[j].response.confidence.kind = "num"
        /\ aiLog[j].response.confidence.val >= 0
        /\ aiLog[j].response.confidence.val <= 100

\* C2: for an ambiguous line (candidates, top <= 0.9) a match is accepted only
\* on an answer naming a candidate with a confidence in [0,1]; on any other
\* answer matched_product is null and needs_review is true.
C2_AIAnswerValidated ==
    \A i \in 1..Len(matched_items) :
        LET c == searchLog[i] IN
        (c # <<>> /\ c[1].similarity_score <= 90) =>
            IF ValidAnswer(i)
            THEN matched_items[i].matched_product.match_type = "ai_resolved"
            ELSE /\ matched_items[i].matched_product = NoMatch
                 /\ matched_items[i].needs_review = TRUE

\* C3: needs_review is true exactly when there is no match or the match's
\* confidence is below 0.7; there is no match when there are no candidates.
C3_NeedsReviewExactly ==
    \A i \in 1..Len(matched_items) :
        LET r == matched_items[i] IN
        /\ r.needs_review =
              (\/ r.matched_product.match_type = "none"
               \/ r.matched_product.confidence_score.val < 70)
        /\ r.matched_product.match_type # "none" =>
              r.matched_product.confidence_score.kind = "num"
        /\ searchLog[i] = <<>> => r.matched_product.match_type = "none"

\* The spec's example: top similarity 0.6, AI confidence 0.65: a match that
\* needs review.
C3_Witness ==
    \E i \in 1..Len(matched_items) :
        /\ searchLog[i] # <<>>
        /\ searchLog[i][1].similarity_score = 60
        /\ matched_items[i].matched_product.match_type = "ai_resolved"
        /\ matched_items[i].matched_product.confidence_score.val = 65
        /\ matched_items[i].needs_review = TRUE

\* C4: a line with zero candidates gets matched_product null and
\* needs_review true, and the LLM chain is not invoked for it.
C4_NoCandidatesToReview ==
    \A i \in ResolvedLines :
        searchLog[i] = <<>> =>
            /\ i <= Len(matched_items)
            /\ matched_items[i].matched_product = NoMatch
            /\ matched_items[i].needs_review = TRUE
            /\ PromptsOf(i) = {}

C4_Witness ==
    /\ llm
    /\ productColl.exists
    /\ \E i \in 1..Len(matched_items) : searchLog[i] = <<>>

\* C5: no answer of the AI step makes match_invoice_line_items raise.
C5_NeverRaises == mPc # "raised"

\* C6 as stated: the LLM chain is invoked for a line exactly when its candidate
\* list is non-empty with top similarity <= 0.9, once, with the raw
\* description and the first 5 candidates at most.
C6_AIInvokedWhenAmbiguous ==
    \A i \in ResolvedLines :
        LET c == searchLog[i] IN
        /\ Cardinality(PromptsOf(i)) =
              (IF c # <<>> /\ c[1].similarity_score <= 90 THEN 1 ELSE 0)
        /\ \A j \in PromptsOf(i) :
              /\ aiLog[j].prompt.invoice_description = line_items[i].raw_description
              /\ aiLog[j].prompt.candidates = FirstN(c, 5)

\* C6 amended: with an LLM configured the chain is invoked exactly for the
\* ambiguous lines; without one it is never invoked.
C6_AIInvokedWhenAmbiguousAndConfigured ==
    \A i \in ResolvedLines :
        LET c == searchLog[i] IN
        /\ Cardinality(PromptsOf(i)) =
              (IF llm /\ c # <<>> /\ c[1].similarity_score <= 90 THEN 1 ELSE 0)
        /\ \A j \in PromptsOf(i) :
              /\ aiLog[j].prompt.invoice_description = line_items[i].raw_description
              /\ aiLog[j].prompt.candidates = FirstN(c, 5)

\* A line with top similarity exactly 0.9 for which the chain was invoked.
C6_Witness ==
    \E i \in ResolvedLines :
        /\ searchLog[i] # <<>>
        /\ searchLog[i][1].similarity_score = 90
        /\ PromptsOf(i) # {}

\* C7: the function returns one result per extracted line item, in
\* extraction order, each with the first min(3, n) candidates of its line.
C7_OneResultPerLine ==
    mPc = "returned" =>
        /\ Len(matched_items) = Len(line_items)
        /\ \A i \in 1..Len(matched_items) :
              /\ matched_items[i].line_item = line_items[i]
              /\ matched_items[i].candidates = FirstN(searchLog[i], 3)

C7_Witness ==
    /\ mPc = "returned"
    /\ Len(matched_items) = 2
    /\ Len(searchLog[1]) > 3
    /\ Len(matched_items[1].candidates) = 3

\* ------------------------------------------------------ similarity queries
\* Either the product index holds entries and the vector store is empty, or
\* the vector store holds chunks and there is no product collection.
SearchInit ==
    /\ vsOpenai \in BOOLEAN
    /\ \/ /\ productColl \in {NoCollection} \cup {CollectionOfSize(n) : n \in 0..MaxEntries}
          /\ vsCollections = [t \in PdfTypes |-> NoPartition]
       \/ /\ productColl = NoCollection
          /\ vsCollections \in
                {[t \in PdfTypes |-> IF t = "invoice" THEN a ELSE IF t = "receipt" THEN b
                                     ELSE NoPartition] :
                    a \in {NoPartition} \cup {PartitionOfSize("invoice", n) : n \in 0..MaxChunks},
                    b \in {NoPartition} \cup {PartitionOfSize("receipt", n) : n \in 0..MaxChunks}}
    /\ sPc = "idle"
    /\ sQuery = <<>>
    /\ sAnswer = <<>>
    /\ sResult = <<>>
    /\ dLog = <<>>
    /\ FeedbackIdle
    /\ llm = FALSE
    /\ invoice = <<>>
    /\ line_items = <<>>
    /\ mPc = "idle"
    /\ mIdx = 0
    /\ candidates = <<>>
    /\ matched_items = <<>>
    /\ aiLog = <<>>
    /\ searchLog = <<>>
    /\ NormIdle
    /\ ConcIdle
    /\ StoreIdle

\* The descriptions match_invoice_line_items hands to the ranker: those of
\* the line items extracted from an item of fillers only and from an ordinary
\* item.
QueryDescriptions ==
    {extract_line_items(<<ItemOf(d)>>).items[1].description :
        d \in {<<"qty", "each">>, <<"Galv", "2", "X", "4">>}}

\* search_similar_products sends collection.query whatever the description
\* is: nothing tests query_description before the call.
QuerySent(query_description) == TRUE

\* search_similar_products(query_description, top_k)
SearchProducts ==
    /\ sPc = "idle"
    /\ \E query_description \in QueryDescriptions, top_k \in 1..MaxTopK :
       \E answer \in (IF QuerySent(query_description)
                      THEN ChromaAnswers(productColl, top_k,
                              [1..Len(productColl.entries) -> QueryDistances])
                      ELSE {ChromaError}) :
          /\ sQuery' = [function |-> "products", pdf_type |-> NoType, top_k |-> top_k,
                        description |-> query_description,
                        sent |-> QuerySent(query_description)]
          /\ sAnswer' = answer
          /\ sResult' = search_similar_products(answer)
    /\ sPc' = "done"
    /\ UNCHANGED <<vsOpenai, vsCollections, dLog>>
    /\ UNCHANGED <<normVars, matchVars, feedbackVars, concVars, storeVars>>

\* search_similar_documents(query, pdf_type, top_k)
SearchDocuments ==
    /\ sPc = "idle"
    /\ \E pdf_type \in PdfTypes \cup {NoType}, top_k \in 1..MaxTopK :
       \E outcome \in QueryOutcomes(vsOpenai, vsCollections) :
          /\ sQuery' = [function |-> "documents", pdf_type |-> pdf_type, top_k |-> top_k]
          /\ sAnswer' = outcome
          /\ sResult' = search_similar_documents(vsOpenai, vsCollections, pdf_type,
                                                 top_k, outcome)
          /\ vsCollections' =
                IF outcome.kind # "store_down" /\ pdf_type # NoType
                THEN create_or_get_collection(vsCollections, pdf_type)
                ELSE vsCollections
    /\ sPc' = "done"
    /\ UNCHANGED <<vsOpenai, dLog>>
    /\ UNCHANGED <<normVars, matchVars, feedbackVars, concVars, storeVars>>

SearchNext == SearchProducts \/ SearchDocuments

SpecSearch == SearchInit /\ [][SearchNext]_vars

\* ------------------------------------------- claims on the similarity queries
\* The distance the store reported for the i-th returned candidate.
DistanceOf(i) ==
    IF sQuery.function = "products" THEN sAnswer.distances[i]
    ELSE sAnswer.dist[<<sResult[i].pdf_type, sResult[i].document>>]

\* C9: every returned candidate has a similarity_score in [0,1], equal to
\* 1 - distance clamped to [0,1] when the store reported a distance.
C9_SimilarityClamped ==
    sPc = "done" =>
        \A i \in 1..Len(sResult) :
            /\ sResult[i].similarity_score >= 0
            /\ sResult[i].similarity_score <= 100
            /\ sAnswer.has_distances =>
                  sResult[i].similarity_score =
                      (IF DistanceOf(i) > 100 THEN 0 ELSE 100 - DistanceOf(i))

\* C10: the candidates a query returns are in non-increasing order of
\* similarity_score.
C10_NonIncreasing ==
    sPc = "done" =>
        \A i \in 1..(Len(sResult) - 1) :
            sResult[i].similarity_score >= sResult[i + 1].similarity_score

\* C12: for an empty normalized description the ranker returns an empty
\* sequence and sends no query to the index.
C12_EmptyDescriptionNotQueried ==
    (sPc = "done" /\ sQuery.function = "products" /\ sQuery.description = <<>>) =>
        /\ sResult = <<>>
        /\ ~sQuery.sent

\* A fan-out whose best candidate comes from the second partition.
C10_Witness ==
    /\ sPc = "done"
    /\ sQuery.function = "documents"
    /\ sQuery.pdf_type = NoType
    /\ Len(sResult) >= 2
    /\ sResult[1].pdf_type = "receipt"
    /\ sResult[2].pdf_type = "invoice"
    /\ sResult[1].similarity_score > sResult[2].similarity_score

MatchIdle ==
    /\ llm = FALSE
    /\ productColl = NoCollection
    /\ invoice = <<>>
    /\ line_items = <<>>
    /\ mPc = "idle"
    /\ mIdx = 0
    /\ candidates = <<>>
    /\ matched_items = <<>>
    /\ aiLog = <<>>
    /\ searchLog = <<>>

NormInit ==
    /\ normIn \in RawDescriptions
    /\ normOut = <<>>
    /\ MatchIdle
    /\ SearchIdle
    /\ FeedbackIdle
    /\ ConcIdle
    /\ StoreIdle

\* One more pass of the normalizer over its own last output (the first pass
\* takes the raw description).
NormalizePass ==
    /\ Len(normOut) < MaxPasses
    /\ normOut' = Append(normOut,
                    clean_and_normalize_description(
                        IF normOut = <<>> THEN normIn ELSE normOut[Len(normOut)]))
    /\ UNCHANGED normIn
    /\ UNCHANGED <<matchVars, searchVars, feedbackVars, concVars, storeVars>>

\* C8: clean_and_normalize_description is idempotent: a second pass over its
\* own output changes nothing.
C8_NormalizeIdempotent == Len(normOut) >= 2 => normOut[2] = normOut[1]

NormNext == NormalizePass

SpecNorm == NormInit /\ [][NormNext]_vars

\* ------------------------------------------------- fan-out over large partitions
\* A partition holding one chunk more than the per-collection limit.
LargePartitionSize == PerCollectionLimit + 1

\* The sizes of the partitions and the top_k values of the fan-out runs: the
\* small ones, and those at and just above the per-collection limit.
FanOutSizes == (0..MaxChunks) \cup {LargePartitionSize}
FanOutTopKs == (1..MaxTopK) \cup {PerCollectionLimit, PerCollectionLimit + 1}

\* The distances the store reports in the fan-out runs: chunk j of a partition
\* at base + step * j, the base 0 or 0.6 per partition, the step 0 or 0.05.
FanOutSlots == PdfTypes \X (1..Max(MaxChunks, LargePartitionSize))
FanOutDistances ==
    {[sl \in FanOutSlots |->
         (IF sl[1] = "invoice" THEN bi ELSE br) + step * sl[2]] :
        bi \in {0, 60}, br \in {0, 60}, step \in {0, 5}}

FanOutOutcomes(has_openai) ==
    {StoreDown}
    \cup (IF has_openai THEN {EmbedFailed} ELSE {})
    \cup {Answered(d, b) : d \in FanOutDistances, b \in BOOLEAN}

FanOutInit ==
    /\ vsOpenai \in BOOLEAN
    /\ vsCollections \in
          {[t \in PdfTypes |-> IF t = "invoice" THEN a ELSE IF t = "receipt" THEN b
                               ELSE NoPartition] :
              a \in {NoPartition} \cup {PartitionOfSize("invoice", n) : n \in FanOutSizes},
              b \in {NoPartition} \cup {PartitionOfSize("receipt", n) : n \in FanOutSizes}}
    /\ sPc = "idle"
    /\ sQuery = <<>>
    /\ sAnswer = <<>>
    /\ sResult = <<>>
    /\ dLog = <<>>
    /\ NormIdle
    /\ MatchIdle
    /\ FeedbackIdle
    /\ ConcIdle
    /\ StoreIdle

\* search_similar_documents(query, pdf_type, top_k) over the large partitions
FanOutQuery ==
    /\ sPc = "idle"
    /\ \E pdf_type \in PdfTypes \cup {NoType}, top_k \in FanOutTopKs :
       \E outcome \in FanOutOutcomes(vsOpenai) :
          /\ sQuery' = [function |-> "documents", pdf_type |-> pdf_type, top_k |-> top_k]
          /\ sAnswer' = outcome
          /\ sResult' = search_similar_documents(vsOpenai, vsCollections, pdf_type,
                                                 top_k, outcome)
          /\ vsCollections' =
                IF outcome.kind # "store_down" /\ pdf_type # NoType
                THEN create_or_get_collection(vsCollections, pdf_type)
                ELSE vsCollections
    /\ sPc' = "done"
    /\ UNCHANGED <<vsOpenai, dLog>>
    /\ UNCHANGED <<normVars, matchVars, feedbackVars, concVars, storeVars>>

FanOutNext == FanOutQuery

SpecFanOut == FanOutInit /\ [][FanOutNext]_vars

\* The similarity the store's answer gives the chunk in slot sl.
ScoreOf(sl) ==
    IF sAnswer.has_distances
    THEN (IF sAnswer.dist[sl] > 100 THEN 0 ELSE 100 - sAnswer.dist[sl])
    ELSE 0

\* The similarities of all the chunks of all the partitions, highest first.
AllScoresDesc ==
    LET all == Flatten([i \in 1..Len(PdfTypeOrder) |->
                    [j \in 1..Len(vsCollections[PdfTypeOrder[i]].entries) |->
                        [key |-> 0 - ScoreOf(<<PdfTypeOrder[i], j>>)]]])
        sorted == SortByKey(all)
    IN [k \in 1..Len(sorted) |-> 0 - sorted[k].key]

\* The merged result of an answered fan-out is the min(k, total) best chunks.
GlobalTopK ==
    /\ \A i \in 1..Len(sResult) :
          sResult[i].similarity_score = ScoreOf(<<sResult[i].pdf_type, sResult[i].document>>)
    /\ \A i, j \in 1..Len(sResult) :
          (i # j) => <<sResult[i].pdf_type, sResult[i].document>>
                        # <<sResult[j].pdf_type, sResult[j].document>>
    /\ [i \in 1..Len(sResult) |-> sResult[i].similarity_score]
          = FirstN(AllScoresDesc, sQuery.top_k)

AnsweredFanOut ==
    /\ sPc = "done"
    /\ sQuery.function = "documents"
    /\ sQuery.pdf_type = NoType
    /\ sAnswer.kind = "answered"

\* C11 as stated: with no partition given, search_similar_documents returns
\* the min(k, total) highest-similarity chunks of all partitions, for every
\* k >= 1, also above 10.
C11_GlobalTopKForEveryK == AnsweredFanOut => GlobalTopK

\* C11 amended: the merged result is the global top min(k, total) for every k
\* from 1 to the per-collection limit of 10.
C11_GlobalTopKUpToLimit ==
    (AnsweredFanOut /\ sQuery.top_k <= 10) => GlobalTopK

\* A fan-out for exactly 10 over a partition of 11 and another one, whose
\* result takes chunks of both.
C11_Witness ==
    /\ AnsweredFanOut
    /\ sQuery.top_k = 10
    /\ Len(vsCollections["invoice"].entries) = 11
    /\ Len(sResult) = 10
    /\ \E i, j \in 1..Len(sResult) :
          sResult[i].pdf_type = "invoice" /\ sResult[j].pdf_type = "receipt"

\* ------------------------------------------------------------ catalog source
\* Most calls (feedback calls and direct index builds) of one run.
MaxCalls == 2

\* Products.StandardizedDescription
StandardizedDescription == [p \in ProductIds |-> IF p = 1 THEN "pine h3" ELSE "steel bolt"]

\* A row of ProductDescriptions.
AltRow(product_id, description, desc_type) ==
    [product_id |-> product_id, description |-> description,
     type |-> desc_type, supplier |-> "none"]

\* The invoice descriptions corrections are made for: the raw descriptions of
\* extracted line items, which are never empty.
FeedbackDescriptions == {"pine", "bolt"}

\* SELECT COUNT(*) FROM ProductDescriptions WHERE ProductId = ? AND
\* AlternativeDescription = ?
CountAlternative(alt, product_id, description) ==
    Cardinality({k \in 1..Len(alt) :
        alt[k].product_id = product_id /\ alt[k].description = description})

\* Mutant: the existence check finds nothing.
PairAbsentAlways(alt, product_id, description) == TRUE

\* cursor.fetchone()[0] == 0
PairAbsent(alt, product_id, description) == CountAlternative(alt, product_id, description) = 0

\* _add_alternative_description with the catalog source reachable.
add_alternative_description(alt, product_id, description, desc_type) ==
    IF PairAbsent(alt, product_id, description)
    THEN Append(alt, AltRow(product_id, description, desc_type))
    ELSE alt

\* The orders in which the rows of the set S can come back: the query orders
\* by ProductId only, the order of the rows of one product is not specified.
Perms(S) ==
    {t \in [1..Cardinality(S) -> S] :
        \A i, j \in 1..Cardinality(S) : (i # j) => t[i] # t[j]}

\* Mutant: the IsActive filter left out.
AllProducts(active) == ProductIds

\* WHERE p.IsActive = 1
ActiveProducts(active) == {p \in ProductIds : active[p]}

\* The product ids of S in ascending order (ORDER BY p.ProductId).
RECURSIVE Ascending(_)
Ascending(S) ==
    IF S = {} THEN <<>>
    ELSE LET m == CHOOSE x \in S : \A y \in S : x <= y
         IN <<m>> \o Ascending(S \ {m})

\* get_product_embeddings_from_db with the catalog source reachable: every list
\* of products it can return, one per order of the rows of each product
\* (SELECT DISTINCT: equal rows come back once).
CatalogLoads(active, alt) ==
    LET ids == Ascending(ActiveProducts(active))
        rows(p) == {alt[k] : k \in {j \in 1..Len(alt) : alt[j].product_id = p}}
    IN {[k \in 1..Len(ids) |->
            [product_id |-> ids[k],
             standardized_description |-> StandardizedDescription[ids[k]],
             alternative_descriptions |-> order[ids[k]]]] :
          order \in {o \in [ProductIds -> UNION {Perms(rows(p)) : p \in ProductIds}] :
                        \A p \in ProductIds : o[p] \in Perms(rows(p))}}

\* What can happen to one build_vector_index call: all goes well, the catalog
\* source is unreachable, the index store is unreachable, collection.add raises.
BuildOutcomes == {"ok", "db_down", "store_down", "add_failed"}

\* get_product_embeddings_from_db: [] when the catalog source is unreachable.
get_product_embeddings_from_db(outcome, loaded) ==
    IF outcome = "db_down" THEN <<>> ELSE loaded

\* The entries of the alternative descriptions of one product, appended to
\* entries: the id carries len(ids).
RECURSIVE AddAlternatives(_, _, _)
AddAlternatives(entries, product_id, alts) ==
    IF alts = <<>> THEN entries
    ELSE AddAlternatives(
            Append(entries, [id |-> <<product_id, Head(alts).type, Len(entries)>>,
                             doc |-> Head(alts).description,
                             product_id |-> product_id,
                             description_type |-> Head(alts).type]),
            product_id, Tail(alts))

\* documents, metadatas and ids of build_vector_index, as one list of entries.
RECURSIVE IndexDocuments(_, _)
IndexDocuments(entries, products) ==
    IF products = <<>> THEN entries
    ELSE LET p == Head(products)
             withStd == Append(entries, [id |-> <<p.product_id, "std", 0>>,
                                         doc |-> p.standardized_description,
                                         product_id |-> p.product_id,
                                         description_type |-> "standardized"])
         IN IndexDocuments(AddAlternatives(withStd, p.product_id, p.alternative_descriptions),
                           Tail(products))

\* collection.add that does not raise: the entries whose id the collection
\* does not hold yet are added.
CollectionAdd(existing, new) ==
    existing \o SelectSeq(new, LAMBDA e : \A k \in 1..Len(existing) : existing[k].id # e.id)

EmptyCollection == [exists |-> TRUE, entries |-> <<>>]

\* build_vector_index(rebuild): the product collection it leaves.
build_vector_index(coll, rebuild, outcome, loaded) ==
    IF outcome = "store_down" THEN coll
    ELSE LET created == IF rebuild \/ ~coll.exists THEN EmptyCollection ELSE coll
             products == get_product_embeddings_from_db(outcome, loaded)
         IN IF products = <<>> \/ outcome = "add_failed" THEN created
            ELSE [exists |-> TRUE,
                  entries |-> CollectionAdd(created.entries, IndexDocuments(<<>>, products))]

\* ------------------------------------------------------------- Feedback Loop
\* The calls made so far: feedback calls and direct index builds.
Calls ==
    Len(fLog) + Cardinality({k \in 1..Len(buildLog) : buildLog[k].via = "direct"})

\* The catalog holds product 1 and product 2 (active or not), with no
\* alternative description or one from a supplier; the index is missing or
\* was built from this catalog.
FeedbackInit ==
    /\ catActive \in {[p \in ProductIds |-> TRUE], [p \in ProductIds |-> p = 1]}
    /\ catAlt \in {<<>>, <<AltRow(1, "pine", "supplier")>>, <<AltRow(2, "bolt", "supplier")>>}
    /\ training = <<>>
    /\ productColl \in {NoCollection}
          \cup {build_vector_index(NoCollection, TRUE, "ok", l) :
                    l \in CatalogLoads(catActive, catAlt)}
    /\ fPc = "idle"
    /\ fCall = <<>>
    /\ fLog = <<>>
    /\ buildLog = <<>>
    /\ llm = FALSE
    /\ invoice = <<>>
    /\ line_items = <<>>
    /\ mPc = "idle"
    /\ mIdx = 0
    /\ candidates = <<>>
    /\ matched_items = <<>>
    /\ aiLog = <<>>
    /\ searchLog = <<>>
    /\ NormIdle
    /\ SearchIdle
    /\ ConcIdle
    /\ StoreIdle

\* The record of a build_vector_index call.
BuildRecord(via, rebuild, outcome, after) ==
    [via |-> via, rebuild |-> rebuild, outcome |-> outcome,
     active |-> catActive, alt |-> catAlt, training |-> training,
     before |-> productColl, after |-> after]

\* Mutant: the index rebuilt right after the training-log write.
StepAfterTrainRebuild == "rebuild"

\* After the training insert is committed: _add_alternative_description.
StepAfterTrain == "alt"

\* update_from_user_feedback(invoice_description, correct_product_id) is called.
FeedbackBegin ==
    /\ fPc = "idle"
    /\ Calls < MaxCalls
    /\ \E product_id \in ActiveProducts(catActive), description \in FeedbackDescriptions :
          /\ fCall' = [product_id |-> product_id, description |-> description]
          /\ fLog' = Append(fLog,
                [product_id |-> product_id, description |-> description,
                 pair_was_present |-> CountAlternative(catAlt, product_id, description) > 0,
                 training_before |-> Len(training),
                 failed |-> {}, returned |-> "pending", build |-> 0])
    /\ fPc' = "train"
    /\ UNCHANGED <<catActive, catAlt, training, buildLog, productColl>>
    /\ UNCHANGED <<llm, invoice, line_items, mPc, mIdx, candidates, matched_items,
                   aiLog, searchLog>>
    /\ UNCHANGED <<normVars, searchVars, concVars, storeVars>>

\* The INSERT INTO ProductMatchingTraining: committed, or it raises and the
\* outer except ends the call.
FeedbackTrain ==
    /\ fPc = "train"
    /\ \E ok \in BOOLEAN :
          IF ok
          THEN /\ training' = Append(training,
                      [description |-> fCall.description,
                       product_id |-> fCall.product_id, supplier |-> "none"])
               /\ fPc' = StepAfterTrain
               /\ UNCHANGED <<fLog, fCall>>
          ELSE /\ fLog' = [fLog EXCEPT ![Len(fLog)].failed = {"train"},
                                       ![Len(fLog)].returned = "None"]
               /\ fPc' = "idle"
               /\ fCall' = <<>>
               /\ UNCHANGED training
    /\ UNCHANGED <<catActive, catAlt, buildLog, productColl>>
    /\ UNCHANGED <<llm, invoice, line_items, mPc, mIdx, candidates, matched_items,
                   aiLog, searchLog>>
    /\ UNCHANGED <<normVars, searchVars, concVars, storeVars>>

\* _add_alternative_description: the row is inserted when the pair is absent;
\* an exception is logged and swallowed.
FeedbackAddAlt ==
    /\ fPc = "alt"
    /\ \E ok \in BOOLEAN :
          IF ok
          THEN /\ catAlt' = add_alternative_description(catAlt, fCall.product_id,
                                fCall.description, "user_feedback")
               /\ UNCHANGED fLog
          ELSE /\ fLog' = [fLog EXCEPT ![Len(fLog)].failed = @ \cup {"alt"}]
               /\ UNCHANGED catAlt
    /\ fPc' = "rebuild"
    /\ UNCHANGED <<catActive, training, fCall, buildLog, productColl>>
    /\ UNCHANGED <<llm, invoice, line_items, mPc, mIdx, candidates, matched_items,
                   aiLog, searchLog>>
    /\ UNCHANGED <<normVars, searchVars, concVars, storeVars>>

\* self.build_vector_index(rebuild=True), then the call returns (None).
FeedbackRebuild ==
    /\ fPc = "rebuild"
    /\ \E outcome \in BuildOutcomes, loaded \in CatalogLoads(catActive, catAlt) :
          LET after == build_vector_index(productColl, TRUE, outcome, loaded)
          IN /\ productColl' = after
             /\ buildLog' = Append(buildLog, BuildRecord("feedback", TRUE, outcome, after))
             /\ fLog' = [fLog EXCEPT
                   ![Len(fLog)].failed = @ \cup (IF outcome = "ok" THEN {} ELSE {"rebuild"}),
                   ![Len(fLog)].returned = "None",
                   ![Len(fLog)].build = Len(buildLog) + 1]
    /\ fPc' = "idle"
    /\ fCall' = <<>>
    /\ UNCHANGED <<catActive, catAlt, training>>
    /\ UNCHANGED <<llm, invoice, line_items, mPc, mIdx, candidates, matched_items,
                   aiLog, searchLog>>
    /\ UNCHANGED <<normVars, searchVars, concVars, storeVars>>

\* build_vector_index(rebuild) called directly.
BuildIndex ==
    /\ fPc = "idle"
    /\ Calls < MaxCalls
    /\ \E rebuild \in BOOLEAN, outcome \in BuildOutcomes,
          loaded \in CatalogLoads(catActive, catAlt) :
          LET after == build_vector_index(productColl, rebuild, outcome, loaded)
          IN /\ productColl' = after
             /\ buildLog' = Append(buildLog, BuildRecord("direct", rebuild, outcome, after))
    /\ UNCHANGED <<catActive, catAlt, training, fPc, fCall, fLog>>
    /\ UNCHANGED <<llm, invoice, line_items, mPc, mIdx, candidates, matched_items,
                   aiLog, searchLog>>
    /\ UNCHANGED <<normVars, searchVars, concVars, storeVars>>

FeedbackNext ==
    FeedbackBegin \/ FeedbackTrain \/ FeedbackAddAlt \/ FeedbackRebuild \/ BuildIndex

SpecFeedback == FeedbackInit /\ [][FeedbackNext]_vars

\* ---------------------------------------- claims on the feedback loop and the index
\* The i-th feedback call has returned; it has returned with no step failed.
Completed(i) == fLog[i].returned # "pending"
Succeeded(i) == Completed(i) /\ fLog[i].failed = {}

SamePair(i, j) ==
    /\ fLog[i].product_id = fLog[j].product_id
    /\ fLog[i].description = fLog[j].description

C14_FeedbackEffectsInOrder ==
    /\ fPc \in {"alt", "rebuild"} =>
          /\ Len(training) = fLog[Len(fLog)].training_before + 1
          /\ training[Len(training)].description = fCall.description
          /\ training[Len(training)].product_id = fCall.product_id
    /\ fPc = "alt" =>
          (Cardinality({k \in 1..Len(catAlt) :
                /\ catAlt[k].product_id = fCall.product_id
                /\ catAlt[k].description = fCall.description}) > 0)
             = fLog[Len(fLog)].pair_was_present
    /\ \A i \in 1..Len(fLog) :
          fLog[i].build # 0 =>
             LET b == buildLog[fLog[i].build]
             IN /\ b.via = "feedback"
                /\ Len(b.training) = fLog[i].training_before + 1
                /\ b.training[Len(b.training)].description = fLog[i].description
                /\ b.training[Len(b.training)].product_id = fLog[i].product_id
                /\ \/ "alt" \in fLog[i].failed
                   \/ Cardinality({k \in 1..Len(b.alt) :
                         /\ b.alt[k].product_id = fLog[i].product_id
                         /\ b.alt[k].description = fLog[i].description}) = 1

\* A call that wrote the training log, inserted a new pair and rebuilt.
C14_Witness ==
    \E i \in 1..Len(fLog) :
        /\ Succeeded(i)
        /\ ~fLog[i].pair_was_present
        /\ fLog[i].build # 0
        /\ Len(buildLog[fLog[i].build].alt) > 0

\* C15: a feedback call in which a step failed returns something else than a
\* call in which all three steps succeeded.
C15_FeedbackReportsOutcome ==
    \A i, j \in 1..Len(fLog) :
        (Completed(i) /\ Completed(j) /\ fLog[i].failed = {} /\ fLog[j].failed # {}) =>
            fLog[i].returned # fLog[j].returned

\* C16: two successive successful build_vector_index(rebuild=True) runs over
\* the same catalog leave the same set of entries (ids, texts, product ids).
C16_RebuildIdempotent ==
    \A i \in 1..(Len(buildLog) - 1) :
        LET b1 == buildLog[i]
            b2 == buildLog[i + 1]
        IN (/\ b1.rebuild /\ b2.rebuild
            /\ b1.outcome = "ok" /\ b2.outcome = "ok"
            /\ b1.active = b2.active /\ b1.alt = b2.alt) =>
              {<<b1.after.entries[k].id, b1.after.entries[k].doc,
                 b1.after.entries[k].product_id>> : k \in 1..Len(b1.after.entries)}
              = {<<b2.after.entries[k].id, b2.after.entries[k].doc,
                   b2.after.entries[k].product_id>> : k \in 1..Len(b2.after.entries)}

\* C17: a rebuild during which the catalog source is unreachable leaves the
\* index with the entries it had.
C17_RebuildKeepsIndexOnCatalogFailure ==
    \A i \in 1..Len(buildLog) :
        (buildLog[i].rebuild /\ buildLog[i].outcome = "db_down") =>
            buildLog[i].after.entries = buildLog[i].before.entries

MaxDeletes == 2

\* Mutant: every chunk of the partition deleted.
WithoutAnyChunk(part, document_id) == [part EXCEPT !.entries = <<>>]

\* collection.get(where={"document_id": document_id}), then
\* collection.delete(ids=results['ids']): the partition without those chunks.
WithoutDocument(part, document_id) ==
    [part EXCEPT !.entries = SelectSeq(@, LAMBDA c : c.document_id # document_id)]

\* len(results['ids'])
ChunksOf(part, document_id) ==
    Cardinality({j \in 1..Len(part.entries) : part.entries[j].document_id = document_id})

\* What can happen to one delete_document call: the store is unreachable, or
\* it answers and get/delete raises for the partitions in failing.
DeleteOutcomes ==
    {[kind |-> "store_down", failing |-> {}]}
    \cup {[kind |-> "answered", failing |-> f] : f \in {{}, {"receipt"}}}

\* collections_to_search
CollectionsToSearch(colls, pdf_type) ==
    IF pdf_type # NoType THEN {pdf_type} ELSE {t \in PdfTypes : colls[t].exists}

RECURSIVE SumOver(_, _, _)
\* deleted_chunks, summed over the partitions of S
SumOver(S, colls, document_id) ==
    IF S = {} THEN 0
    ELSE LET t == CHOOSE x \in S : TRUE
         IN ChunksOf(colls[t], document_id) + SumOver(S \ {t}, colls, document_id)

\* delete_document(document_id, pdf_type): the store it leaves and what it
\* returns.
delete_document(colls, document_id, pdf_type, outcome) ==
    IF outcome.kind = "store_down" THEN [colls |-> colls, returned |-> FALSE]
    ELSE LET opened == IF pdf_type # NoType THEN create_or_get_collection(colls, pdf_type)
                       ELSE colls
             reached == CollectionsToSearch(opened, pdf_type) \ outcome.failing
         IN [colls |-> [t \in PdfTypes |->
                          IF t \in reached THEN WithoutDocument(opened[t], document_id)
                          ELSE opened[t]],
             returned |-> SumOver(reached, opened, document_id) > 0]

\* The documents deletes are asked for, and the pdf types given with them.
DeleteDocumentIds == {<<"invoice", 1>>, <<"receipt", 1>>, <<"receipt", 2>>}
DeletePdfTypes == {NoType, "receipt", "other"}

DeleteInit ==
    /\ vsOpenai = FALSE
    /\ vsCollections \in
          {[t \in PdfTypes |-> IF t = "invoice" THEN a ELSE IF t = "receipt" THEN b
                               ELSE NoPartition] :
              a \in {NoPartition} \cup {PartitionOfSize("invoice", n) : n \in 0..MaxChunks},
              b \in {NoPartition}
                    \cup {PartitionOfSize("receipt", n) : n \in 0..(MaxChunks + 1)}}
    /\ sPc = "off"
    /\ sQuery = <<>>
    /\ sAnswer = <<>>
    /\ sResult = <<>>
    /\ dLog = <<>>
    /\ NormIdle
    /\ MatchIdle
    /\ FeedbackIdle
    /\ ConcIdle
    /\ StoreIdle

\* delete_document(document_id, pdf_type)
DeleteDocument ==
    /\ Len(dLog) < MaxDeletes
    /\ \E document_id \in DeleteDocumentIds, pdf_type \in DeletePdfTypes,
          outcome \in DeleteOutcomes :
          LET r == delete_document(vsCollections, document_id, pdf_type, outcome)
          IN /\ vsCollections' = r.colls
             /\ dLog' = Append(dLog, [document_id |-> document_id, pdf_type |-> pdf_type,
                                      outcome |-> outcome, before |-> vsCollections,
                                      after |-> r.colls, returned |-> r.returned])
    /\ UNCHANGED <<vsOpenai, sPc, sQuery, sAnswer, sResult>>
    /\ UNCHANGED <<normVars, matchVars, feedbackVars, concVars, storeVars>>

DeleteNext == DeleteDocument

SpecDelete == DeleteInit /\ [][DeleteNext]_vars

\* The call dLog[i] named no partition and the store served every partition.
DeleteAllServed(i) ==
    /\ dLog[i].pdf_type = NoType
    /\ dLog[i].outcome.kind = "answered"
    /\ dLog[i].outcome.failing = {}

\* C19: delete_document(document_id) with no partition leaves in every
\* partition exactly the chunks of the other documents, returns true exactly
\* when a chunk was removed, and returns false when repeated at once.
C19_DeleteRemovesDocument ==
    \A i \in 1..Len(dLog) :
        DeleteAllServed(i) =>
            /\ \A t \in PdfTypes :
                  /\ dLog[i].after[t].exists = dLog[i].before[t].exists
                  /\ dLog[i].after[t].entries =
                        SelectSeq(dLog[i].before[t].entries,
                                  LAMBDA c : c.document_id # dLog[i].document_id)
            /\ dLog[i].returned =
                  (\E t \in PdfTypes : \E j \in 1..Len(dLog[i].before[t].entries) :
                       dLog[i].before[t].entries[j].document_id = dLog[i].document_id)
            /\ (/\ i < Len(dLog)
                /\ dLog[i + 1].document_id = dLog[i].document_id
                /\ dLog[i + 1].pdf_type = NoType) => dLog[i + 1].returned = FALSE

\* A document of two chunks deleted from the second partition, another
\* document staying there, and the delete repeated.
C19_Witness ==
    /\ Len(dLog) = 2
    /\ DeleteAllServed(1) /\ DeleteAllServed(2)
    /\ dLog[1].document_id = <<"receipt", 1>>
    /\ dLog[2].document_id = <<"receipt", 1>>
    /\ dLog[1].returned = TRUE
    /\ dLog[2].returned = FALSE
    /\ Len(dLog[1].before["invoice"].entries) > 0
    /\ Len(dLog[1].before["receipt"].entries) = 3
    /\ Len(dLog[1].after["receipt"].entries) = 1

\* ------------------------------------------------------- extract_line_items
\* The raw items of the extraction runs: well-formed ones (with every field,
\* with a zero quantity, with an Amount, with a description only, without a
\* description, with a product code in its place), one that is no dict, and
\* dicts with one field of the wrong type or with a number that does not parse.
RawItems ==
    {DictItem(Text(<<"Galv", "2", "X", "4">>), Number(2), Number(5), MissingNumber),
     DictItem(Text(<<"timber">>), Number(0), Number(5), MissingNumber),
     DictItem(Text(<<"timber">>), Number(2), Number(0), Number(7)),
     DictItem(Text(<<"qty", "each">>), MissingNumber, MissingNumber, MissingNumber),
     DictItem(MissingText, Number(2), Number(5), MissingNumber),
     WithProductCode(DictItem(MissingText, Number(2), Number(5), MissingNumber),
                     Text(<<"timber">>)),
     NotADict,
     DictItem(ScalarText, Number(2), Number(5), MissingNumber),
     DictItem(Text(<<"timber">>), ScalarNumber, Number(5), MissingNumber),
     DictItem(Text(<<"timber">>), NonNumeric, Number(5), MissingNumber),
     DictItem(Text(<<"timber">>), Number(2), NonNumeric, MissingNumber),
     DictItem(Text(<<"timber">>), Number(2), Number(5), ScalarNumber)}

ExtractInit ==
    /\ invoice \in SeqUpTo(RawItems, MaxLines)
    /\ line_items = <<>>
    /\ mPc = "start"
    /\ llm = FALSE
    /\ productColl = NoCollection
    /\ mIdx = 0
    /\ candidates = <<>>
    /\ matched_items = <<>>
    /\ aiLog = <<>>
    /\ searchLog = <<>>
    /\ NormIdle
    /\ SearchIdle
    /\ FeedbackIdle
    /\ ConcIdle
    /\ StoreIdle

\* extract_line_items(invoice_json): it returns its line items or an
\* exception escapes.
ExtractLineItems ==
    /\ mPc = "start"
    /\ LET extracted == extract_line_items(invoice)
       IN /\ line_items' = extracted.items
          /\ mPc' = IF extracted.raised THEN "raised" ELSE "extracted"
    /\ UNCHANGED <<llm, productColl, invoice, mIdx, candidates, matched_items,
                   aiLog, searchLog>>
    /\ UNCHANGED <<normVars, searchVars, feedbackVars, concVars, storeVars>>

ExtractNext == ExtractLineItems

SpecExtract == ExtractInit /\ [][ExtractNext]_vars

\* The raw item is an object whose fields, where present, are objects
\* carrying a string or a number.
WellFormed(item) ==
    /\ item.kind = "dict"
    /\ item.Description.kind \in {"missing", "object"}
    /\ item.ProductCode.kind \in {"missing", "object"}
    /\ \A f \in {item.Quantity, item.UnitPrice, item.Amount} :
          f.kind \in {"missing", "object"}

\* C20: extract_line_items never raises; every well-formed item with a
\* description gives a line item, and no line item comes from a bad item.
C20_ExtractSkipsBadItems ==
    mPc \in {"extracted", "raised"} =>
        /\ mPc # "raised"
        /\ \A i \in 1..Len(invoice) :
              (WellFormed(invoice[i]) /\ invoice[i].Description.kind = "object") =>
                  \E k \in 1..Len(line_items) :
                      /\ line_items[k].line_number = i
                      /\ line_items[k].raw_description = invoice[i].Description.value
        /\ \A k \in 1..Len(line_items) :
              WellFormed(invoice[line_items[k].line_number])

\* The line items made for the raw item at position i.
LinesOf(i) == {k \in 1..Len(line_items) : line_items[k].line_number = i}

\* C21: a raw item with a description, with quantity and unit_price present
\* (zero included) and no total price gives a line item whose total_price is
\* the product of the item's own quantity and unit_price.
C21_TotalIsQuantityTimesUnitPrice ==
    mPc = "extracted" =>
        \A i \in 1..Len(invoice) :
            (/\ WellFormed(invoice[i])
             /\ invoice[i].Quantity.kind = "object"
             /\ invoice[i].UnitPrice.kind = "object"
             /\ invoice[i].Amount.kind = "missing") =>
                \A k \in LinesOf(i) :
                    line_items[k].total_price =
                        invoice[i].Quantity.value * invoice[i].UnitPrice.value

\* The raw item carries no description at all: neither a Description nor a
\* ProductCode.
NoDescription(item) ==
    item.Description.kind = "missing" /\ item.ProductCode.kind = "missing"

\* C22: in an input of well-formed items of which exactly one has no
\* description, extract_line_items returns one line item fewer than there
\* are items, and none for the item without a description.
C22_MissingDescriptionExcluded ==
    (/\ mPc \in {"extracted", "raised"}
     /\ \A i \in 1..Len(invoice) : WellFormed(invoice[i])
     /\ Cardinality({i \in 1..Len(invoice) : NoDescription(invoice[i])}) = 1) =>
        /\ mPc = "extracted"
        /\ Len(line_items) = Len(invoice) - 1
        /\ \A i \in 1..Len(invoice) : NoDescription(invoice[i]) => LinesOf(i) = {}

C22_Witness ==
    /\ mPc = "extracted"
    /\ Len(invoice) = MaxLines
    /\ NoDescription(invoice[1])
    /\ \A i \in 2..Len(invoice) : WellFormed(invoice[i]) /\ ~NoDescription(invoice[i])
    /\ Len(line_items) = MaxLines - 1

\* C23: every line item carries the position of its source item as its line
\* number and the description, quantity and prices of that item, never those
\* of an item before it; line numbers increase strictly along the output.
C23_LineItemsFromOwnSource ==
    mPc = "extracted" =>
        /\ \A k \in 1..Len(line_items) :
              LET i == line_items[k].line_number
                  made == ItemStep(invoice[i], i, NoLocals).made
              IN /\ i \in 1..Len(invoice)
                 /\ made # <<>>
                 /\ line_items[k] = made[1]
        /\ \A k \in 1..(Len(line_items) - 1) :
              line_items[k].line_number < line_items[k + 1].line_number

\* ------------------------------------------------ embedding-provider failures
\* The partitions a documents query reads: the named one, or every listed one.
SearchedTypes(pdf_type) == IF pdf_type = NoType THEN PdfTypes ELSE {pdf_type}

\* C24: when the embedding call fails for the query text, the search falls
\* back to a text query and returns the store's matches: with chunks in a
\* searched partition the result is not empty.
C24_EmbeddingFailureFallsBackToText ==
    (/\ sPc = "done"
     /\ sQuery.function = "documents"
     /\ sAnswer.kind = "embed_failed"
     /\ \E t \in SearchedTypes(sQuery.pdf_type) : Len(vsCollections[t].entries) > 0) =>
        sResult # <<>>

\* The store did not answer the query (unreachable, or the call raised).
IndexUnavailable ==
    IF sQuery.function = "products" THEN ~sAnswer.ok ELSE sAnswer.kind = "store_down"

\* C25: when the index store is unreachable during a query the caller gets
\* a result that differs from the empty sequence a query without matches
\* gives.
C25_UnavailableDistinctFromEmpty ==
    (sPc = "done" /\ IndexUnavailable) => sResult # <<>>

\* ------------------------------------------------- concurrent feedback calls
\* Two callers, each in its own worker with its own connections, each making
\* one call: update_from_user_feedback or build_vector_index(rebuild=True).
\* Nothing in the code serializes them; every SQL statement and every call to
\* the index store is one step.
Callers == {1, 2}

ConcInit ==
    /\ catActive = [p \in ProductIds |-> TRUE]
    /\ catAlt \in {<<>>, <<AltRow(1, "pine", "supplier")>>}
    /\ training = <<>>
    /\ productColl \in {NoCollection}
          \cup {build_vector_index(NoCollection, TRUE, "ok", l) :
                    l \in CatalogLoads(catActive, catAlt)}
    /\ collGen = 1
    /\ cPc = [c \in Callers |-> "idle"]
    /\ cCall = [c \in Callers |-> <<>>]
    /\ cLocal = [c \in Callers |-> [count |-> 0, handle |-> 0, products |-> <<>>]]
    /\ fPc = "off"
    /\ fCall = <<>>
    /\ fLog = <<>>
    /\ buildLog = <<>>
    /\ llm = FALSE
    /\ invoice = <<>>
    /\ line_items = <<>>
    /\ mPc = "idle"
    /\ mIdx = 0
    /\ candidates = <<>>
    /\ matched_items = <<>>
    /\ aiLog = <<>>
    /\ searchLog = <<>>
    /\ NormIdle
    /\ SearchIdle
    /\ StoreIdle

\* What no step of a concurrent caller touches.
ConcFrame ==
    /\ UNCHANGED <<fPc, fCall, fLog, buildLog>>
    /\ UNCHANGED <<llm, invoice, line_items, mPc, mIdx, candidates, matched_items,
                   aiLog, searchLog>>
    /\ UNCHANGED <<normVars, searchVars, storeVars>>

\* Caller c is called.
ConcBegin(c) ==
    /\ cPc[c] = "idle"
    /\ \E kind \in {"feedback", "rebuild"}, product_id \in ProductIds,
          description \in FeedbackDescriptions :
          /\ kind = "rebuild" => (product_id = 1 /\ description = "pine")
          /\ cCall' = [cCall EXCEPT ![c] = [kind |-> kind, product_id |-> product_id,
                                            description |-> description]]
          /\ cPc' = [cPc EXCEPT ![c] = IF kind = "feedback" THEN "train" ELSE "drop"]
    /\ UNCHANGED <<catActive, catAlt, training, productColl, collGen, cLocal>>
    /\ ConcFrame

\* INSERT INTO ProductMatchingTraining ...; conn.commit()
ConcTrain(c) ==
    /\ cPc[c] = "train"
    /\ training' = Append(training, [description |-> cCall[c].description,
                                     product_id |-> cCall[c].product_id,
                                     supplier |-> "none"])
    /\ cPc' = [cPc EXCEPT ![c] = "check"]
    /\ UNCHANGED <<catActive, catAlt, productColl, collGen, cCall, cLocal>>
    /\ ConcFrame

\* SELECT COUNT(*) FROM ProductDescriptions WHERE ...; cursor.fetchone()[0]
ConcCheck(c) ==
    /\ cPc[c] = "check"
    /\ cLocal' = [cLocal EXCEPT ![c].count =
                      CountAlternative(catAlt, cCall[c].product_id, cCall[c].description)]
    /\ cPc' = [cPc EXCEPT ![c] = "insert"]
    /\ UNCHANGED <<catActive, catAlt, training, productColl, collGen, cCall>>
    /\ ConcFrame

\* if count == 0: INSERT INTO ProductDescriptions ...; conn.commit()
ConcInsert(c) ==
    /\ cPc[c] = "insert"
    /\ catAlt' = IF cLocal[c].count = 0
                 THEN Append(catAlt, AltRow(cCall[c].product_id, cCall[c].description,
                                            "user_feedback"))
                 ELSE catAlt
    /\ cPc' = [cPc EXCEPT ![c] = "drop"]
    /\ UNCHANGED <<catActive, training, productColl, collGen, cCall, cLocal>>
    /\ ConcFrame

\* build_vector_index(rebuild=True): delete_collection (a missing collection
\* raises, which is passed over).
ConcDrop(c) ==
    /\ cPc[c] = "drop"
    /\ productColl' = NoCollection
    /\ cPc' = [cPc EXCEPT ![c] = "create"]
    /\ UNCHANGED <<catActive, catAlt, training, collGen, cCall, cLocal>>
    /\ ConcFrame

\* get_or_create_collection: the handle names the collection found or created.
ConcCreate(c) ==
    /\ cPc[c] = "create"
    /\ IF productColl.exists
       THEN /\ cLocal' = [cLocal EXCEPT ![c].handle = collGen]
            /\ UNCHANGED <<productColl, collGen>>
       ELSE /\ productColl' = EmptyCollection
            /\ collGen' = collGen + 1
            /\ cLocal' = [cLocal EXCEPT ![c].handle = collGen + 1]
    /\ cPc' = [cPc EXCEPT ![c] = "load"]
    /\ UNCHANGED <<catActive, catAlt, training, cCall>>
    /\ ConcFrame

\* products = self.get_product_embeddings_from_db()
ConcLoad(c) ==
    /\ cPc[c] = "load"
    /\ \E loaded \in CatalogLoads(catActive, catAlt) :
          cLocal' = [cLocal EXCEPT ![c].products = loaded]
    /\ cPc' = [cPc EXCEPT ![c] = "add"]
    /\ UNCHANGED <<catActive, catAlt, training, productColl, collGen, cCall>>
    /\ ConcFrame

\* collection.add(...) through the caller's handle: it raises (logged by the
\* outer except) when the collection of the handle was dropped meanwhile.
ConcAdd(c) ==
    /\ cPc[c] = "add"
    /\ productColl' =
          IF productColl.exists /\ cLocal[c].handle = collGen
          THEN [exists |-> TRUE,
                entries |-> CollectionAdd(productColl.entries,
                                          IndexDocuments(<<>>, cLocal[c].products))]
          ELSE productColl
    /\ cPc' = [cPc EXCEPT ![c] = "done"]
    /\ UNCHANGED <<catActive, catAlt, training, collGen, cCall, cLocal>>
    /\ ConcFrame

ConcNext ==
    \E c \in Callers :
        \/ ConcBegin(c) \/ ConcTrain(c) \/ ConcCheck(c) \/ ConcInsert(c)
        \/ ConcDrop(c) \/ ConcCreate(c) \/ ConcLoad(c) \/ ConcAdd(c)

SpecConc == ConcInit /\ [][ConcNext]_vars

\* The callers whose rebuild of the product partition is in progress: the
\* partition was dropped by the caller and its entries are not added yet.
Rebuilding == {c \in Callers : cPc[c] \in {"create", "load", "add"}}

\* C26: at most one rebuild of the product partition is in progress at any
\* time.
C26_RebuildExclusive == Cardinality(Rebuilding) <= 1

\* C27: when two concurrent feedback calls carry the same (product_id,
\* description), the catalog ends with at most one alternative-description
\* entry for that pair.
C27_ConcurrentFeedbackOneEntry ==
    (/\ \A c \in Callers : cPc[c] = "done" /\ cCall[c].kind = "feedback"
     /\ cCall[1].product_id = cCall[2].product_id
     /\ cCall[1].description = cCall[2].description) =>
        CountAlternative(catAlt, cCall[1].product_id, cCall[1].description) <= 1

\* C29: a similarity query is read-only: no step of a query changes the set
\* of partitions or their contents (a query naming a missing partition does
\* not create it).
C29_QueryReadOnly == [][vsCollections' = vsCollections]_vars

\* ------------------------------------------------------ store_document_vector
\* self.chunk_size, self.chunk_overlap
chunk_size == 1000
chunk_overlap == 200

\* Most iterations of the splitter's loop that are followed.
MaxSplits == 6

\* A text is its length and the positions (from 0) of its spaces; every other
\* character is a letter. The texts stored: one that fits a chunk, and longer
\* ones with spaces early, late or nowhere in the windows of the splitter.
Texts ==
    {[len |-> n, spaces |-> S] :
        n \in {600, 1500, 2600},
        S \in {T \in SUBSET {1, 900, 1100, 1950} : Cardinality(T) <= 2}}

\* text.rfind(' ', start, end)
rfind(text, start, end) ==
    LET S == {q \in text.spaces : start <= q /\ q < end /\ q < text.len}
    IN IF S = {} THEN 0 - 1 ELSE CHOOSE q \in S : \A r \in S : r <= q

\* text[start:end].strip() is not empty: the slice holds a letter.
HasLetter(text, start, end) ==
    \E q \in start..(Min(end, text.len) - 1) : q \notin text.spaces

\* One iteration of the while loop of _split_text_into_chunks: the end of the
\* window, whether a chunk is appended, and the next start.
SplitIteration(text, start) ==
    LET window == start + chunk_size
        last_space == rfind(text, start, window)
        end == IF window < text.len /\ last_space > start THEN last_space ELSE window
        moved == end - chunk_overlap
    IN [end |-> end,
        appended |-> HasLetter(text, start, end),
        start |-> IF moved < 0 THEN end ELSE moved]

\* The document id of the call: a fresh uuid, held by no stored chunk.
NewDocumentId(pdf_type) == <<pdf_type, 0>>

StoreInit ==
    /\ vsOpenai \in BOOLEAN
    /\ vsCollections \in
          {[t \in PdfTypes |-> IF t = "invoice" THEN a ELSE NoPartition] :
              a \in {NoPartition} \cup {PartitionOfSize("invoice", n) : n \in 0..MaxChunks}}
    /\ stPc = "idle"
    /\ stCall = <<>>
    /\ stLocal = <<>>
    /\ sPc = "off"
    /\ sQuery = <<>>
    /\ sAnswer = <<>>
    /\ sResult = <<>>
    /\ dLog = <<>>
    /\ NormIdle
    /\ MatchIdle
    /\ FeedbackIdle
    /\ ConcIdle

\* What store_document_vector does not touch.
StoreFrame ==
    /\ UNCHANGED <<vsOpenai, sPc, sQuery, sAnswer, sResult, dLog>>
    /\ UNCHANGED <<normVars, matchVars, feedbackVars, concVars>>

\* store_document_vector(pdf_filename, extracted_json, pdf_type) up to the
\* loop of the splitter: create_or_get_collection raises when the store is
\* down; a text of at most chunk_size characters is one chunk as it is.
StoreBegin ==
    /\ stPc = "idle"
    /\ \E pdf_type \in {"invoice", "other"}, text \in Texts, store_ok \in BOOLEAN :
          /\ stCall' = [pdf_type |-> pdf_type, text |-> text,
                        document_id |-> NewDocumentId(pdf_type)]
          /\ IF ~store_ok
             THEN /\ stPc' = "raised"
                  /\ stLocal' = [start |-> 0, chunks |-> <<>>, i |-> 0]
                  /\ UNCHANGED vsCollections
             ELSE /\ vsCollections' = create_or_get_collection(vsCollections, pdf_type)
                  /\ IF text.len <= chunk_size
                     THEN /\ stLocal' = [start |-> 0, chunks |-> <<<<0, text.len>>>>, i |-> 0]
                          /\ stPc' = "add"
                     ELSE /\ stLocal' = [start |-> 0, chunks |-> <<>>, i |-> 0]
                          /\ stPc' = "split"
    /\ StoreFrame

\* One iteration of the splitter's loop; the loop ends when start reaches
\* the end of the text.
SplitStep ==
    /\ stPc = "split"
    /\ Len(stLocal.chunks) < MaxSplits
    /\ LET it == SplitIteration(stCall.text, stLocal.start)
       IN /\ stLocal' = [stLocal EXCEPT
                !.chunks = IF it.appended THEN Append(@, <<stLocal.start, it.end>>) ELSE @,
                !.start = it.start]
          /\ stPc' = IF it.start < stCall.text.len THEN "split" ELSE "add"
    /\ UNCHANGED <<vsCollections, stCall>>
    /\ StoreFrame

\* One iteration of the loop over the chunks: the embedding (None when there
\* is no client or the call fails) and collection.add, which stores the chunk
\* or raises.
StoreChunk ==
    /\ stPc = "add"
    /\ stLocal.i < Len(stLocal.chunks)
    /\ \E embedded \in (IF vsOpenai THEN BOOLEAN ELSE {FALSE}), added \in BOOLEAN :
          IF added
          THEN /\ vsCollections' =
                     [vsCollections EXCEPT ![stCall.pdf_type].entries =
                         Append(@, [id |-> Len(@) + 1,
                                    document_id |-> stCall.document_id,
                                    chunk_index |-> stLocal.i,
                                    pdf_type |-> stCall.pdf_type,
                                    embedded |-> embedded])]
               /\ stLocal' = [stLocal EXCEPT !.i = @ + 1]
               /\ UNCHANGED stPc
          ELSE /\ stPc' = "raised"
               /\ UNCHANGED <<vsCollections, stLocal>>
    /\ UNCHANGED stCall
    /\ StoreFrame

\* return document_id
StoreReturn ==
    /\ stPc = "add"
    /\ stLocal.i = Len(stLocal.chunks)
    /\ stPc' = "returned"
    /\ UNCHANGED <<vsCollections, stCall, stLocal>>
    /\ StoreFrame

StoreNext == StoreBegin \/ SplitStep \/ StoreChunk \/ StoreReturn

SpecStore == StoreInit /\ [][StoreNext]_vars

\* C28: on every iteration of the splitter's loop the start position
\* advances strictly (so the loop terminates for every text).
C28_SplitStartAdvances ==
    [][stPc = "split" => stLocal'.start > stLocal.start]_vars

\* How many chunks of the call's document the partition holds.
StoredChunks ==
    ChunksOf(vsCollections[stCall.pdf_type], stCall.document_id)

\* C30: when store_document_vector raises, no chunk of its document is left
\* in the partition.
C30_StoreAllOrNothing ==
    stPc = "raised" => StoredChunks = 0

====
